---- MODULE Spec2Model ----
(***************************************************************************)
(* Price-time priority limit order book (src/Orderbook.cpp, src/Order.h,   *)
(* src/Constants.h).  The book is the four containers of Orderbook:        *)
(*   bids_   price -> FIFO of orders, best = highest price                 *)
(*   asks_   price -> FIFO of orders, best = lowest price                  *)
(*   orders_ order id -> (order, position in its FIFO)                     *)
(*   data_   price -> (quantity_, count_)                                  *)
(* A std::map / std::unordered_map is a function whose DOMAIN is its key   *)
(* set; a std::list is a sequence.  An Order is a record with the fields   *)
(* of class Order.  An entry of orders_ holds the pointee's orderType,     *)
(* side and price; its iterator denotes the element with that id in the    *)
(* level (side, price), through which the remaining quantity is read.      *)
(*                                                                         *)
(* Quantity is std::uint32_t (src/orderbook.cpp:29).  A Quantity is held   *)
(* as its residue of least magnitude modulo 2^32: a negative integer -k    *)
(* stands for the unsigned value 2^32 - k.  Sums and differences of        *)
(* residues are residues, and the magnitudes of this model stay far below  *)
(* 2^31, so + and - are exact; only the order comparison has to be the     *)
(* unsigned one (UnsignedLeq).                                             *)
(***************************************************************************)
EXTENDS Integers, Sequences, FiniteSets, TLC

\* ---------------------------------------------------------------- bounds
MaxPrice == 1
MaxQuantity == 2
MaxOrderId == 3
MaxCalls == 3

\* Constants::InitialPrice = std::numeric_limits<Price>::quiet_NaN(); Price is
\* std::int32_t, for which quiet_NaN() is Price() = 0.
InitialPrice == 0

Prices == 0..MaxPrice
Quantities == 1..MaxQuantity
OrderIds == 1..MaxOrderId
Sides == {"Buy", "Sell"}
OrderTypes == {"GoodTillCancel", "GoodForDay", "FillAndKill", "FillOrKill", "Market"}

\* class Order: the constructor sets remainingQuantity_ = initialQuantity_.
Order(orderType, orderId, side, price, quantity) ==
    [orderType |-> orderType, orderId |-> orderId, side |-> side, price |-> price,
     initialQuantity |-> quantity, remainingQuantity |-> quantity]

\* Order(orderId, side, quantity): a Market order carries Constants::InitialPrice.
MarketOrder(orderId, side, quantity) ==
    Order("Market", orderId, side, InitialPrice, quantity)

IsFilled(order) == order.remainingQuantity = 0

\* A fill that takes all that remains of the order, whatever the quantity.
FillAll(order, quantity) ==
    [order EXCEPT !.remainingQuantity = 0]

\* Order::Fill.  The matcher only fills by min(remaining, remaining), so the
\* logic_error branch (quantity > remaining) is never taken.
Fill(order, quantity) ==
    [order EXCEPT !.remainingQuantity = @ - quantity]

\* OrderModify::ToOrderPointer
ToOrderPointer(modify, orderType) ==
    Order(orderType, modify.orderId, modify.side, modify.price, modify.quantity)

\* operator<= on two std::uint32_t held as residues.
UnsignedLeq(a, b) ==
    IF (a >= 0) = (b >= 0) THEN a <= b ELSE a >= 0

Min(a, b) == IF a <= b THEN a ELSE b

\* ------------------------------------------------------------ containers
Erase(map, key) == [k \in (DOMAIN map) \ {key} |-> map[k]]
Put(map, key, value) == [k \in (DOMAIN map) \cup {key} |-> IF k = key THEN value ELSE map[k]]
EmptyMap == [k \in {} |-> 0]

SetMax(S) == CHOOSE x \in S : \A y \in S : y <= x
SetMin(S) == CHOOSE x \in S : \A y \in S : x <= y

\* *bids_.begin() under std::greater, *asks_.begin() under std::less
BestBid(b) == SetMax(DOMAIN b.bids)
BestAsk(b) == SetMin(DOMAIN b.asks)

EmptyBook == [bids |-> EmptyMap, asks |-> EmptyMap, orders |-> EmptyMap, data |-> EmptyMap]

\* An erasure that removes the head of the level whatever the id.
EraseHead(level, orderId) == Tail(level)

\* std::list::erase(iterator): the iterator of orders_[orderId] is the element
\* of the level with that id.
EraseFromLevel(level, orderId) ==
    SelectSeq(level, LAMBDA o : o.orderId # orderId)

\* ------------------------------------------------------------ level data
UpdateLevelData(data, price, quantity, action) ==
    LET old == IF price \in DOMAIN data THEN data[price]
               ELSE [quantity_ |-> 0, count_ |-> 0]
        count == old.count_ + (IF action = "Remove" THEN -1
                               ELSE IF action = "Add" THEN 1 ELSE 0)
        qty == IF action \in {"Remove", "Match"}
               THEN old.quantity_ - quantity
               ELSE old.quantity_ + quantity
    IN  IF count = 0 THEN Erase(data, price)
        ELSE Put(data, price, [quantity_ |-> qty, count_ |-> count])

OnOrderCancelled(data, order) ==
    UpdateLevelData(data, order.price, order.remainingQuantity, "Remove")

OnOrderAdded(data, order) ==
    UpdateLevelData(data, order.price, order.initialQuantity, "Add")

OnOrderMatched(data, price, quantity, isFullyFilled) ==
    UpdateLevelData(data, price, quantity, IF isFullyFilled THEN "Remove" ELSE "Match")

\* ---------------------------------------------------------- cancellation
\* The order pointed to by orders_[orderId].
Resting(b, orderId) ==
    LET e == b.orders[orderId]
        level == IF e.side = "Sell" THEN b.asks[e.price] ELSE b.bids[e.price]
    IN  CHOOSE o \in {level[i] : i \in DOMAIN level} : o.orderId = orderId

\* CancelOrderInternal binds order and iterator by reference to the entry of
\* orders_ and erases the entry before it uses them: when the id is there, the
\* rest of the function reads through dangling references.
CancelDangles(b, orderId) == orderId \in DOMAIN b.orders

\* A side that keeps the level whatever is left in it.
KeepLevel(side, price, orders) == Put(side, price, orders)

\* if (orders.empty()) asks_.erase(price), and the same for bids_: the side
\* after the erasure from its level at price left orders there.
EraseIfEmpty(side, price, orders) ==
    IF orders = <<>> THEN Erase(side, price) ELSE Put(side, price, orders)

\* A cancellation that erases the entry of orders_ and leaves the queue alone.
CancelFromIndexOnly(b, orderId) ==
    IF orderId \notin DOMAIN b.orders THEN b
    ELSE [b EXCEPT !.orders = Erase(b.orders, orderId)]

CancelOrderInternal(b, orderId) ==
    IF orderId \notin DOMAIN b.orders THEN b
    ELSE LET order == Resting(b, orderId)
             price == order.price
         IN  IF order.side = "Sell"
             THEN LET orders == EraseFromLevel(b.asks[price], orderId)
                  IN  [bids |-> b.bids,
                       asks |-> EraseIfEmpty(b.asks, price, orders),
                       orders |-> Erase(b.orders, orderId),
                       data |-> OnOrderCancelled(b.data, order)]
             ELSE LET orders == EraseFromLevel(b.bids[price], orderId)
                  IN  [bids |-> EraseIfEmpty(b.bids, price, orders),
                       asks |-> b.asks,
                       orders |-> Erase(b.orders, orderId),
                       data |-> OnOrderCancelled(b.data, order)]

\* ------------------------------------------------------- admission gates
CanMatch(b, side, price) ==
    IF side = "Buy"
    THEN IF DOMAIN b.asks = {} THEN FALSE ELSE price >= BestAsk(b)
    ELSE IF DOMAIN b.bids = {} THEN FALSE ELSE price <= BestBid(b)

\* The range-for over data_ of CanFullyFill, on the keys not yet visited.  The
\* keys are visited in ascending order; the result does not depend on the order,
\* since a true answer is reached as soon as the running quantity fits a level.
RECURSIVE FullyFillWalk(_, _, _, _, _, _)
FullyFillWalk(data, todo, side, threshold, price, quantity) ==
    IF todo = {} THEN FALSE
    ELSE LET levelPrice == SetMin(todo)
             rest == todo \ {levelPrice}
         IN  IF (side = "Buy" /\ threshold > levelPrice)
                \/ (side = "Sell" /\ threshold < levelPrice)
             THEN FullyFillWalk(data, rest, side, threshold, price, quantity)
             ELSE IF (side = "Buy" /\ levelPrice > price)
                     \/ (side = "Sell" /\ levelPrice < price)
             THEN FullyFillWalk(data, rest, side, threshold, price, quantity)
             ELSE IF UnsignedLeq(quantity, data[levelPrice].quantity_) THEN TRUE
             ELSE FullyFillWalk(data, rest, side, threshold, price,
                                quantity - data[levelPrice].quantity_)

CanFullyFill(b, side, price, quantity) ==
    IF ~CanMatch(b, side, price) THEN FALSE
    ELSE LET threshold == IF side = "Buy" THEN BestAsk(b) ELSE BestBid(b)
         IN  FullyFillWalk(b.data, DOMAIN b.data, side, threshold, price, quantity)

\* ---------------------------------------------------------------- matching
TradeInfo(orderId, price, quantity) ==
    [orderId |-> orderId, price |-> price, quantity |-> quantity]

\* A trade with its legs exchanged.
TradeLegsExchanged(bidTrade, askTrade) == [bid |-> askTrade, ask |-> bidTrade]

Trade(bidTrade, askTrade) == [bid |-> bidTrade, ask |-> askTrade]

\* The heads the inner loop of MatchOrders fills: bids.front() and asks.front().
BidFront(b, bidPrice) == Head(b.bids[bidPrice])
AskFront(b, askPrice) == Head(b.asks[askPrice])

\* An index that keeps the entry of a filled order.
KeepFilled(orders, order) == orders

\* if (bid->IsFilled()) { ...; orders_.erase(bid->GetOrderID()); } and the same
\* for ask: the index after it.
EraseFilled(orders, order) ==
    IF IsFilled(order) THEN Erase(orders, order.orderId) ELSE orders

\* One iteration of the inner while loop of MatchOrders on the levels bidPrice
\* and askPrice.  After pop_front and the erasures the code still reads through
\* bid, ask, bidPrice and askPrice; those reads are of the values last stored
\* there (the field `dangling` records that the iteration made such a read).
MatchStep(b, bidPrice, askPrice) ==
    LET bid0 == BidFront(b, bidPrice)
        ask0 == AskFront(b, askPrice)
        quantity == Min(bid0.remainingQuantity, ask0.remainingQuantity)
        bid == Fill(bid0, quantity)
        ask == Fill(ask0, quantity)
        bids == IF IsFilled(bid) THEN Tail(b.bids[bidPrice])
                ELSE <<bid>> \o Tail(b.bids[bidPrice])
        asks == IF IsFilled(ask) THEN Tail(b.asks[askPrice])
                ELSE <<ask>> \o Tail(b.asks[askPrice])
        orders1 == EraseFilled(b.orders, bid)
        orders2 == EraseFilled(orders1, ask)
        data1 == IF bids = <<>> THEN Erase(b.data, bidPrice) ELSE b.data
        data2 == IF asks = <<>> THEN Erase(data1, askPrice) ELSE data1
        data3 == OnOrderMatched(data2, bid.price, quantity, IsFilled(bid))
        data4 == OnOrderMatched(data3, ask.price, quantity, IsFilled(ask))
    IN  [book |-> [bids |-> IF bids = <<>> THEN Erase(b.bids, bidPrice)
                            ELSE Put(b.bids, bidPrice, bids),
                   asks |-> IF asks = <<>> THEN Erase(b.asks, askPrice)
                            ELSE Put(b.asks, askPrice, asks),
                   orders |-> orders2,
                   data |-> data4],
         trade |-> Trade(TradeInfo(bid.orderId, bid.price, quantity),
                         TradeInfo(ask.orderId, ask.price, quantity)),
         dangling |-> IsFilled(bid) \/ IsFilled(ask)]

\* while (bids.size() && asks.size()): an erased level reads as size 0.
RECURSIVE MatchLevel(_, _, _, _, _)
MatchLevel(b, bidPrice, askPrice, trades, dangling) ==
    IF bidPrice \in DOMAIN b.bids /\ askPrice \in DOMAIN b.asks
       /\ b.bids[bidPrice] # <<>> /\ b.asks[askPrice] # <<>>
    THEN LET s == MatchStep(b, bidPrice, askPrice)
         IN  MatchLevel(s.book, bidPrice, askPrice, Append(trades, s.trade),
                        dangling \/ s.dangling)
    ELSE [book |-> b, trades |-> trades, dangling |-> dangling]

\* The two checks after the inner loop: the head of the best bid level, or of
\* the best ask level, is a FillAndKill order, for which MatchOrders calls the
\* public CancelOrder.
FillAndKillAtTop(b) ==
    \/ DOMAIN b.bids # {} /\ Head(b.bids[BestBid(b)]).orderType = "FillAndKill"
    \/ DOMAIN b.asks # {} /\ Head(b.asks[BestAsk(b)]).orderType = "FillAndKill"

\* One iteration of the outer loop of MatchOrders.  exit is "return" at a
\* break, "again" when the loop goes round, and "relock" when the iteration
\* reaches CancelOrder, which locks ordersMutex_ while the caller AddOrder holds it.
MatchPass(b, trades) ==
    IF DOMAIN b.bids = {} \/ DOMAIN b.asks = {}
    THEN [book |-> b, trades |-> trades, exit |-> "return", dangling |-> FALSE]
    ELSE LET bidPrice == BestBid(b)
             askPrice == BestAsk(b)
         IN  IF bidPrice < askPrice
             THEN [book |-> b, trades |-> trades, exit |-> "return", dangling |-> FALSE]
             ELSE LET r == MatchLevel(b, bidPrice, askPrice, trades, FALSE)
                  IN  [book |-> r.book, trades |-> r.trades,
                       exit |-> IF FillAndKillAtTop(r.book) THEN "relock" ELSE "again",
                       dangling |-> r.dangling]

RECURSIVE MatchLoop(_, _, _)
MatchLoop(b, trades, dangling) ==
    LET r == MatchPass(b, trades)
    IN  IF r.exit = "again" THEN MatchLoop(r.book, r.trades, dangling \/ r.dangling)
        ELSE [r EXCEPT !.dangling = @ \/ dangling]

MatchOrders(b) == MatchLoop(b, <<>>, FALSE)

\* --------------------------------------------------------------- admission
\* Early returns without the test for an id already in orders_.
RejectedUnlessDuplicate(b, order) ==
    \/ order.orderType = "FillAndKill" /\ ~CanMatch(b, order.side, order.price)
    \/ order.orderType = "FillOrKill"
       /\ ~CanFullyFill(b, order.side, order.price, order.initialQuantity)

\* AddOrder, the three early returns.
Rejected(b, order) ==
    \/ order.orderId \in DOMAIN b.orders
    \/ order.orderType = "FillAndKill" /\ ~CanMatch(b, order.side, order.price)
    \/ order.orderType = "FillOrKill"
       /\ ~CanFullyFill(b, order.side, order.price, order.initialQuantity)

\* An insertion that puts the order at the head of its level: push_front where
\* AddOrder has push_back.
InsertFront(b, order) ==
    LET side == IF order.side = "Buy" THEN b.bids ELSE b.asks
        orders == IF order.price \in DOMAIN side THEN side[order.price] ELSE <<>>
        level == Put(side, order.price, <<order>> \o orders)
    IN  [bids |-> IF order.side = "Buy" THEN level ELSE b.bids,
         asks |-> IF order.side = "Buy" THEN b.asks ELSE level,
         orders |-> Put(b.orders, order.orderId,
                        [orderType |-> order.orderType, side |-> order.side,
                         price |-> order.price]),
         data |-> OnOrderAdded(b.data, order)]

\* AddOrder, from the push_back to OnOrderAdded.
Insert(b, order) ==
    LET side == IF order.side = "Buy" THEN b.bids ELSE b.asks
        orders == IF order.price \in DOMAIN side THEN side[order.price] ELSE <<>>
        level == Put(side, order.price, Append(orders, order))
    IN  [bids |-> IF order.side = "Buy" THEN level ELSE b.bids,
         asks |-> IF order.side = "Buy" THEN b.asks ELSE level,
         orders |-> Put(b.orders, order.orderId,
                        [orderType |-> order.orderType, side |-> order.side,
                         price |-> order.price]),
         data |-> OnOrderAdded(b.data, order)]

\* The body of AddOrder under its scoped_lock.
AddOrderLocked(b, order) ==
    IF Rejected(b, order)
    THEN [book |-> b, trades |-> <<>>, exit |-> "return", dangling |-> FALSE]
    ELSE MatchOrders(Insert(b, order))

\* A ModifyOrder that leaves out its call of CancelOrder.
ModifyOrderWithoutCancel(b, modify) ==
    IF modify.orderId \notin DOMAIN b.orders
    THEN [book |-> b, trades |-> <<>>, exit |-> "return", dangling |-> FALSE]
    ELSE AddOrderLocked(b, ToOrderPointer(modify, b.orders[modify.orderId].orderType))

\* The calls ModifyOrder makes one after the other when no other thread runs:
\* the existence check and the read of the order type, CancelOrder, AddOrder.
ModifyOrderCalls(b, modify) ==
    IF modify.orderId \notin DOMAIN b.orders
    THEN [book |-> b, trades |-> <<>>, exit |-> "return", dangling |-> FALSE]
    ELSE [AddOrderLocked(CancelOrderInternal(b, modify.orderId),
                         ToOrderPointer(modify, b.orders[modify.orderId].orderType))
             EXCEPT !.dangling = @ \/ CancelDangles(b, modify.orderId)]

\* ------------------------------------------------------------------ state
\* bids_, asks_, orders_, data_, ordersMutex_ and shutdown_ are members of
\* Orderbook; notified is the state of shutdownConditionVariable_: a
\* notification has reached the waiting pruner.
\* call is the call of the single caller that has just ended, until the caller
\* takes its result; calls counts the calls made.
\* pc is where each thread stands, local the locals of each client thread,
\* orderIds the local of PruneGoodForDayOrders and cancelIds what the loop of
\* CancelOrders has yet to visit of its parameter.
VARIABLES bids_, asks_, orders_, data_, ordersMutex_, shutdown_, notified,
          call, calls, pc, local, orderIds, cancelIds

vars == <<bids_, asks_, orders_, data_, ordersMutex_, shutdown_, notified,
          call, calls, pc, local, orderIds, cancelIds>>

bookVars == <<bids_, asks_, orders_, data_>>
threadVars == <<shutdown_, notified, pc, local, orderIds, cancelIds>>

Clients == {"c1", "c2"}
Threads == Clients \cup {"pruner", "main"}

\* The locals of a client thread: the order or the modify request in hand, the
\* order type ModifyOrder read, the trades of MatchOrders, and bidInfos and the
\* OrderbookLevelInfos that GetOrderInfos returned, if it did.
NoLocal == [order |-> 0, modify |-> 0, orderType |-> "", trades |-> <<>>,
            bidInfos |-> <<>>, infos |-> <<>>]

Book == [bids |-> bids_, asks |-> asks_, orders |-> orders_, data |-> data_]

SetBook(b) ==
    /\ bids_' = b.bids
    /\ asks_' = b.asks
    /\ orders_' = b.orders
    /\ data_' = b.data

\* The ids a caller passes to AddOrder: an id in use, or one that is not.  The
\* code only compares ids for equality, so of the unused ids the least stands
\* for all.
AddableIds(b) ==
    LET unused == OrderIds \ DOMAIN b.orders
    IN  (DOMAIN b.orders) \cup (IF unused = {} THEN {} ELSE {SetMin(unused)})

\* What the single caller passes: limit orders, Market orders from the
\* three-argument constructor, and modify requests.  GoodForDay differs from
\* GoodTillCancel only in PruneGoodForDayOrders, which runs on its own thread,
\* so the single caller's limit orders are of the other three priced types.
CallerOrderTypes == {"GoodTillCancel", "FillAndKill", "FillOrKill"}

OrderInputs(b) ==
    {Order(t, i, s, p, q) : t \in CallerOrderTypes, i \in AddableIds(b),
                            s \in Sides, p \in Prices, q \in Quantities}
    \cup {MarketOrder(i, s, q) : i \in AddableIds(b), s \in Sides, q \in Quantities}

ModifyInputs ==
    [orderId : OrderIds, side : Sides, price : Prices, quantity : Quantities]

\* The record of a call: the operation, its argument, the book before it, the
\* trades its crossing loop produced and how it ended: "return"; "throw" and
\* "blocked", the two outcomes of locking the std::mutex the thread already
\* owns (std::system_error with resource_deadlock_would_occur, or no return
\* from lock()); "fault", a read through a dangling reference stopping the
\* process.
Call(op, arg, pre, trades, exit) ==
    [op |-> op, arg |-> arg, pre |-> pre, trades |-> trades, exit |-> exit]

NoCall == Call("none", 0, EmptyBook, <<>>, "return")

Init ==
    /\ bids_ = EmptyMap
    /\ asks_ = EmptyMap
    /\ orders_ = EmptyMap
    /\ data_ = EmptyMap
    /\ ordersMutex_ = "free"
    /\ call = NoCall
    /\ calls = 0
    /\ shutdown_ = FALSE
    /\ notified = FALSE
    /\ pc = [t \in Threads |-> IF t \in Clients THEN "idle"
                               ELSE IF t = "pruner" THEN "start" ELSE "alive"]
    /\ local = [c \in Clients |-> NoLocal]
    /\ orderIds = {}
    /\ cancelIds = {}

\* The caller can make its next call.
Callable ==
    /\ ordersMutex_ = "free"
    /\ call.op = "none"
    /\ calls < MaxCalls

\* How a call whose body evaluates to r ends.
Finish(op, arg, r) ==
    /\ calls' = calls + 1
    /\ UNCHANGED threadVars
    /\ \/ /\ r.exit = "return"
          /\ SetBook(r.book)
          /\ call' = Call(op, arg, Book, r.trades, "return")
          /\ UNCHANGED ordersMutex_
       \/ /\ r.exit = "relock"
          /\ SetBook(r.book)
          /\ call' = Call(op, arg, Book, r.trades, "throw")
          /\ UNCHANGED ordersMutex_
       \/ /\ r.exit = "relock"
          /\ SetBook(r.book)
          /\ call' = Call(op, arg, Book, r.trades, "blocked")
          /\ ordersMutex_' = "caller"
       \/ /\ r.dangling
          /\ call' = Call(op, arg, Book, <<>>, "fault")
          /\ UNCHANGED <<bids_, asks_, orders_, data_, ordersMutex_>>

AddOrder ==
    /\ Callable
    /\ \E order \in OrderInputs(Book) :
           Finish("add", order, AddOrderLocked(Book, order))

CancelOrder ==
    /\ Callable
    /\ \E orderId \in OrderIds :
           Finish("cancel", orderId,
                  [book |-> CancelOrderInternal(Book, orderId), trades |-> <<>>,
                   exit |-> "return", dangling |-> CancelDangles(Book, orderId)])

ModifyOrder ==
    /\ Callable
    /\ \E modify \in ModifyInputs :
           Finish("modify", modify, ModifyOrderCalls(Book, modify))

\* The caller takes the result of a call that returned or threw.
Return ==
    /\ call.op # "none"
    /\ calls < MaxCalls
    /\ call.exit \in {"return", "throw"}
    /\ call' = NoCall
    /\ UNCHANGED <<bids_, asks_, orders_, data_, ordersMutex_, calls>>
    /\ UNCHANGED threadVars

Next == AddOrder \/ CancelOrder \/ ModifyOrder \/ Return

Spec == Init /\ [][Next]_vars

\* ------------------------------------------------------------ observations
LevelOrders(side) == UNION {{side[p][i] : i \in DOMAIN side[p]} : p \in DOMAIN side}

\* The orders in the FIFO queues of either side.
QueuedOrders(b) == LevelOrders(b.bids) \cup LevelOrders(b.asks)

\* The order id is in a queue or in the order index.
InBook(b, orderId) ==
    \/ orderId \in DOMAIN b.orders
    \/ \E o \in QueuedOrders(b) : o.orderId = orderId

Crossed(b) ==
    /\ DOMAIN b.bids # {}
    /\ DOMAIN b.asks # {}
    /\ BestBid(b) >= BestAsk(b)

RECURSIVE SumQuantity(_)
SumQuantity(trades) ==
    IF trades = <<>> THEN 0
    ELSE Head(trades).bid.quantity + SumQuantity(Tail(trades))

\* No call is in progress: the last call returned or threw, and its lock is released.
AtRest ==
    /\ ordersMutex_ = "free"
    /\ call.exit \in {"return", "throw"}

\* The last call was AddOrder of an order of the given type with an id not in use.
Admitted(orderType) ==
    /\ call.op = "add"
    /\ call.arg.orderType = orderType
    /\ call.arg.orderId \notin DOMAIN call.pre.orders

\* ------------------------------------------------------------------ claims
\* C1: after every AddOrder, CancelOrder or ModifyOrder, from the empty book,
\* the book is not crossed: a side is empty or best bid < best ask.
C1_NotCrossedAtRest == AtRest => ~Crossed(Book)

\* C2: AddOrder of a FillOrKill order of quantity q returns trades that sum to
\* q, or returns no trades and leaves the book as it was; either way the order
\* does not rest.
C2_FillOrKillAllOrNothing ==
    (Admitted("FillOrKill") /\ call.exit = "return") =>
        /\ \/ SumQuantity(call.trades) = call.arg.initialQuantity
           \/ call.trades = <<>> /\ Book = call.pre
        /\ ~InBook(Book, call.arg.orderId)

\* C3: a FillAndKill order never rests once the admitting call is over: at
\* rest no queue and no index entry holds a FillAndKill order.
C3_FillAndKillNeverRests ==
    AtRest =>
        /\ \A o \in QueuedOrders(Book) : o.orderType # "FillAndKill"
        /\ \A i \in DOMAIN orders_ : orders_[i].orderType # "FillAndKill"

\* C4: every call returns with the mutex free; AddOrder, whose crossing loop
\* cancels a FillAndKill at the top of the book, never waits for the mutex it
\* holds itself.
C4_NeverWaitsForOwnMutex ==
    ~(call.exit = "blocked" /\ ordersMutex_ = "caller")

\* C6: a Market order never rests after AddOrder returns, and one admitted
\* against an empty opposing side is rejected: no trades, book unchanged.
C6_MarketNeverRests ==
    (Admitted("Market") /\ call.exit = "return") =>
        /\ ~InBook(Book, call.arg.orderId)
        /\ (DOMAIN (IF call.arg.side = "Buy" THEN call.pre.asks ELSE call.pre.bids) = {})
               => (call.trades = <<>> /\ Book = call.pre)

\* The order id received a fill on the given side in the last call.
Traded(orderId, side) ==
    \E k \in DOMAIN call.trades :
        IF side = "Buy" THEN call.trades[k].bid.orderId = orderId
        ELSE call.trades[k].ask.orderId = orderId

\* The order id still rests with quantity left.
RestsUnfilled(b, orderId) ==
    \E o \in QueuedOrders(b) : o.orderId = orderId /\ o.remainingQuantity > 0

\* o1 has a strictly better price than o2, both of one side.
BetterPrice(o1, o2) ==
    IF o1.side = "Buy" THEN o1.price > o2.price ELSE o1.price < o2.price

\* The orders of the book before the call that the call itself did not replace.
Bystanders(side) ==
    {o \in LevelOrders(side) : call.op = "modify" => o.orderId # call.arg.orderId}

\* o1 precedes o2 in a level of side.
Precedes(side, o1, o2) ==
    \E p \in DOMAIN side : \E i, j \in DOMAIN side[p] :
        i < j /\ side[p][i] = o1 /\ side[p][j] = o2

PriorityOn(side) ==
    \A o1, o2 \in Bystanders(side) :
        (Precedes(side, o1, o2) \/ BetterPrice(o1, o2)) =>
            (Traded(o2.orderId, o2.side) => ~RestsUnfilled(Book, o1.orderId))

\* The order id is the last of a level.
IsLastOfLevel(b, orderId) ==
    \E side \in {b.bids, b.asks} : \E p \in DOMAIN side :
        side[p][Len(side[p])].orderId = orderId

\* C5: matching respects price-time priority: an order receives no fill while an
\* order of its side at a better price, or ahead of it at its price, still rests
\* with quantity left; the order just admitted comes after those already at its
\* price.
C5_PriceTimePriority ==
    (call.op \in {"add", "modify"} /\ call.exit \in {"return", "throw", "blocked"}) =>
        /\ PriorityOn(call.pre.bids)
        /\ PriorityOn(call.pre.asks)
        /\ \A o \in Bystanders(call.pre.bids) \cup Bystanders(call.pre.asks) :
               (/\ o.side = call.arg.side
                /\ o.price = call.arg.price \/ BetterPrice(o, call.arg)
                /\ call.arg.orderId \notin DOMAIN call.pre.orders
                /\ Traded(call.arg.orderId, call.arg.side))
                   => ~RestsUnfilled(Book, o.orderId)
        /\ (/\ call.op = "add"
            /\ call.arg.orderId \notin DOMAIN call.pre.orders
            /\ RestsUnfilled(Book, call.arg.orderId))
               => IsLastOfLevel(Book, call.arg.orderId)

\* C5 witness: an admission filled the head of a two-order level in full and
\* then the order behind it in part.
C5_Witness ==
    /\ call.op = "add"
    /\ call.exit = "return"
    /\ \E p \in DOMAIN call.pre.bids :
           /\ Len(call.pre.bids[p]) = 2
           /\ Traded(call.pre.bids[p][1].orderId, "Buy")
           /\ Traded(call.pre.bids[p][2].orderId, "Buy")
           /\ RestsUnfilled(Book, call.pre.bids[p][2].orderId)

\* C7: ModifyOrder on a resting id is CancelOrder followed by AddOrder of a new
\* order with the original order's type and the requested side, price and
\* quantity: the same trades, the same book, the replacement (if it rests) last
\* in its level.  On an absent id it returns no trades and changes nothing.
C7_ModifyIsCancelThenAdd ==
    (call.op = "modify" /\ call.exit = "return") =>
        IF call.arg.orderId \notin DOMAIN call.pre.orders
        THEN call.trades = <<>> /\ Book = call.pre
        ELSE LET original == Resting(call.pre, call.arg.orderId)
                 cancelled == CancelOrderInternal(call.pre, call.arg.orderId)
                 replacement == Order(original.orderType, call.arg.orderId,
                                      call.arg.side, call.arg.price, call.arg.quantity)
                 added == AddOrderLocked(cancelled, replacement)
             IN  /\ call.trades = added.trades
                 /\ Book = added.book
                 /\ InBook(Book, call.arg.orderId) =>
                        /\ IsLastOfLevel(Book, call.arg.orderId)
                        /\ orders_[call.arg.orderId] =
                               [orderType |-> original.orderType,
                                side |-> call.arg.side, price |-> call.arg.price]

\* C7 witness: the head of a two-order level was modified with its price and
\* quantity unchanged, and now stands behind the other order.
C7_Witness ==
    /\ call.op = "modify"
    /\ call.exit = "return"
    /\ \E p \in DOMAIN call.pre.bids :
           /\ Len(call.pre.bids[p]) = 2
           /\ call.pre.bids[p][1].orderId = call.arg.orderId
           /\ p \in DOMAIN bids_
           /\ bids_[p] = <<call.pre.bids[p][2], call.pre.bids[p][1]>>

\* ----------------------------------------------------------------- threads
\* The client threads c1 and c2 call the public operations while the pruner
\* thread runs PruneGoodForDayOrders and the main thread, once no call is in
\* progress, runs the destructor.  A step is what a thread does between two
\* points where another thread can see or change the book: a critical section
\* of ordersMutex_, or, for AddOrder, which holds the mutex from the insertion
\* to the end of MatchOrders, the insertion and each round of the outer loop
\* (GetOrderInfos takes no lock and reads between them).
ThreadOrderTypes == {"GoodTillCancel", "GoodForDay"}

ThreadOrderInputs(b) ==
    {Order(t, i, s, p, q) : t \in ThreadOrderTypes, i \in AddableIds(b),
                            s \in Sides, p \in Prices, q \in Quantities}

\* A scope that leaves the mutex to the other threads.
NoLock(thread) == "free"

\* std::scoped_lock ordersLock{ordersMutex_}: the mutex is the thread's until
\* the end of the scope.
ScopedLock(thread) == thread

Goto(t, label) == pc' = [pc EXCEPT ![t] = label]

\* A client can start a call: the engine is alive, the budget of calls is not spent.
CanCall(c) ==
    /\ pc[c] = "idle"
    /\ pc["main"] = "alive"
    /\ calls < MaxCalls

\* AddOrder from its scoped_lock to OnOrderAdded: an early return releases the
\* lock, otherwise the thread goes on to MatchOrders holding it.
Admit(c, order) ==
    IF Rejected(Book, order)
    THEN /\ Goto(c, "idle")
         /\ local' = [local EXCEPT ![c] = NoLocal]
         /\ UNCHANGED <<bookVars, ordersMutex_>>
    ELSE /\ SetBook(Insert(Book, order))
         /\ ordersMutex_' = ScopedLock(c)
         /\ Goto(c, "matching")
         /\ local' = [local EXCEPT ![c] = [NoLocal EXCEPT !.order = order]]

ThreadAddOrder(c) ==
    /\ CanCall(c)
    /\ ordersMutex_ = "free"
    /\ \E order \in ThreadOrderInputs(Book) : Admit(c, order)
    /\ calls' = calls + 1
    /\ UNCHANGED <<shutdown_, notified, call, orderIds, cancelIds>>

\* One round of the outer loop of MatchOrders, and the return of AddOrder.
ThreadMatchOrders(c) ==
    /\ pc[c] = "matching"
    /\ LET r == MatchPass(Book, local[c].trades)
       IN  \/ /\ r.exit = "again"
              /\ SetBook(r.book)
              /\ local' = [local EXCEPT ![c].trades = r.trades]
              /\ UNCHANGED <<pc, ordersMutex_>>
           \/ /\ r.exit \in {"return", "relock"}
              /\ SetBook(r.book)
              /\ local' = [local EXCEPT ![c] = NoLocal]
              /\ Goto(c, "idle")
              /\ ordersMutex_' = "free"
           \/ /\ r.exit = "relock"
              /\ SetBook(r.book)
              /\ Goto(c, "blocked")
              /\ UNCHANGED <<local, ordersMutex_>>
           \/ /\ r.dangling
              /\ pc' = [t \in Threads |-> "fault"]
              /\ UNCHANGED <<bookVars, local, ordersMutex_>>
    /\ UNCHANGED <<shutdown_, notified, call, calls, orderIds, cancelIds>>

ThreadCancelOrder(c) ==
    /\ CanCall(c)
    /\ ordersMutex_ = "free"
    /\ \E orderId \in OrderIds :
           \/ /\ SetBook(CancelOrderInternal(Book, orderId))
              /\ UNCHANGED pc
           \/ /\ CancelDangles(Book, orderId)
              /\ pc' = [t \in Threads |-> "fault"]
              /\ UNCHANGED bookVars
    /\ calls' = calls + 1
    /\ UNCHANGED <<ordersMutex_, shutdown_, notified, call, local, orderIds, cancelIds>>

\* ModifyOrder, its first critical section: the existence check and the read of
\* the order type.
ThreadModifyOrder(c) ==
    /\ CanCall(c)
    /\ ordersMutex_ = "free"
    /\ \E modify \in ModifyInputs :
           IF modify.orderId \notin DOMAIN orders_
           THEN UNCHANGED <<pc, local>>
           ELSE /\ Goto(c, "modify_cancel")
                /\ local' = [local EXCEPT ![c] =
                                [NoLocal EXCEPT !.modify = modify,
                                                !.orderType = orders_[modify.orderId].orderType]]
    /\ calls' = calls + 1
    /\ UNCHANGED <<bookVars, ordersMutex_, shutdown_, notified, call, orderIds, cancelIds>>

\* ModifyOrder, its call of CancelOrder.
ThreadModifyCancel(c) ==
    /\ pc[c] = "modify_cancel"
    /\ ordersMutex_ = "free"
    /\ \/ /\ SetBook(CancelOrderInternal(Book, local[c].modify.orderId))
          /\ Goto(c, "modify_add")
       \/ /\ CancelDangles(Book, local[c].modify.orderId)
          /\ pc' = [t \in Threads |-> "fault"]
          /\ UNCHANGED bookVars
    /\ UNCHANGED <<ordersMutex_, shutdown_, notified, call, calls, local, orderIds, cancelIds>>

\* ModifyOrder, its call of AddOrder.
ThreadModifyAdd(c) ==
    /\ pc[c] = "modify_add"
    /\ ordersMutex_ = "free"
    /\ Admit(c, ToOrderPointer(local[c].modify, local[c].orderType))
    /\ UNCHANGED <<shutdown_, notified, call, calls, orderIds, cancelIds>>

\* Size: orders_.size() under a scoped_lock; it changes nothing.
ThreadSize(c) ==
    /\ CanCall(c)
    /\ ordersMutex_ = "free"
    /\ calls' = calls + 1
    /\ UNCHANGED <<bookVars, ordersMutex_, shutdown_, notified, call, pc, local, orderIds, cancelIds>>

\* CreateLevelInfos over the levels of a side in its order (best first).
RECURSIVE LevelInfos(_, _)
LevelInfos(side, bestFirst) ==
    IF DOMAIN side = {} THEN <<>>
    ELSE LET p == IF bestFirst = "highest" THEN SetMax(DOMAIN side) ELSE SetMin(DOMAIN side)
             RECURSIVE Sum(_)
             Sum(orders) == IF orders = <<>> THEN 0
                            ELSE Head(orders).remainingQuantity + Sum(Tail(orders))
         IN  <<[price_ |-> p, quantity_ |-> Sum(side[p])]>>
             \o LevelInfos(Erase(side, p), bestFirst)

\* GetOrderInfos takes no lock: the loop over bids_, then the loop over asks_.
ThreadGetOrderInfosBids(c) ==
    /\ CanCall(c)
    /\ local' = [local EXCEPT ![c] =
                    [NoLocal EXCEPT !.bidInfos = LevelInfos(bids_, "highest")]]
    /\ Goto(c, "infos")
    /\ calls' = calls + 1
    /\ UNCHANGED <<bookVars, ordersMutex_, shutdown_, notified, call, orderIds, cancelIds>>

ThreadGetOrderInfosAsks(c) ==
    /\ pc[c] = "infos"
    /\ local' = [local EXCEPT ![c] =
                    [NoLocal EXCEPT !.infos = <<[bids |-> local[c].bidInfos,
                                                 asks |-> LevelInfos(asks_, "lowest")]>>]]
    /\ Goto(c, "idle")
    /\ UNCHANGED <<bookVars, ordersMutex_, shutdown_, notified, call, calls, orderIds, cancelIds>>

\* PruneGoodForDayOrders: the unique_lock, the test of shutdown_ and the entry
\* into wait_for, which releases the mutex.
PrunerLock ==
    /\ pc["pruner"] = "start"
    /\ ordersMutex_ = "free"
    /\ Goto("pruner", IF shutdown_ THEN "exited" ELSE "waiting")
    /\ UNCHANGED <<bookVars, ordersMutex_, shutdown_, notified, call, calls, local, orderIds, cancelIds>>

\* wait_for returns no_timeout, woken by notify_one or spuriously, once it has
\* the mutex again: the pruner returns.
PrunerWoken ==
    /\ pc["pruner"] = "waiting"
    /\ ordersMutex_ = "free"
    /\ Goto("pruner", "exited")
    /\ UNCHANGED <<bookVars, ordersMutex_, shutdown_, notified, call, calls, local, orderIds, cancelIds>>

\* wait_for returns timeout at the close of the market.
PrunerTimeout ==
    /\ pc["pruner"] = "waiting"
    /\ ~notified
    /\ ordersMutex_ = "free"
    /\ Goto("pruner", "collect")
    /\ UNCHANGED <<bookVars, ordersMutex_, shutdown_, notified, call, calls, local, orderIds, cancelIds>>

\* The scoped_lock under which the ids of the GoodForDay orders are collected.
PrunerCollect ==
    /\ pc["pruner"] = "collect"
    /\ ordersMutex_ = "free"
    /\ orderIds' = {i \in DOMAIN orders_ : orders_[i].orderType = "GoodForDay"}
    /\ Goto("pruner", "cancel")
    /\ UNCHANGED <<bookVars, ordersMutex_, shutdown_, notified, call, calls, local, cancelIds>>

\* A loop that ends after its first round.
NoRest(ids, orderId) == {}

\* What the range-for of CancelOrders has yet to visit once it has visited orderId.
Rest(ids, orderId) == ids \ {orderId}

\* CancelOrders: the copy of orderIds into the parameter and the scoped_lock.
PrunerCancelOrders ==
    /\ pc["pruner"] = "cancel"
    /\ ordersMutex_ = "free"
    /\ ordersMutex_' = ScopedLock("pruner")
    /\ cancelIds' = orderIds
    /\ Goto("pruner", "cancelling")
    /\ UNCHANGED <<bookVars, shutdown_, notified, call, calls, local, orderIds>>

\* CancelOrders, one round of its loop: CancelOrderInternal on the next id.
\* The ids come in the iteration order of the unordered_map, which is any order.
PrunerCancelOrderInternal ==
    /\ pc["pruner"] = "cancelling"
    /\ \E orderId \in cancelIds :
           \/ /\ SetBook(CancelOrderInternal(Book, orderId))
              /\ cancelIds' = Rest(cancelIds, orderId)
              /\ UNCHANGED pc
           \/ /\ CancelDangles(Book, orderId)
              /\ pc' = [t \in Threads |-> "fault"]
              /\ UNCHANGED <<bookVars, cancelIds>>
    /\ UNCHANGED <<ordersMutex_, shutdown_, notified, call, calls, local, orderIds>>

\* CancelOrders, the end of its loop and of the scope of ordersLock.
PrunerCancelOrdersReturn ==
    /\ pc["pruner"] = "cancelling"
    /\ cancelIds = {}
    /\ ordersMutex_' = "free"
    /\ Goto("pruner", "pruned")
    /\ UNCHANGED <<bookVars, shutdown_, notified, call, calls, local, orderIds, cancelIds>>

\* The end of the body of the while loop: orderIds goes out of scope.
PrunerLoop ==
    /\ pc["pruner"] = "pruned"
    /\ orderIds' = {}
    /\ Goto("pruner", "start")
    /\ UNCHANGED <<bookVars, ordersMutex_, shutdown_, notified, call, calls, local, cancelIds>>

\* ~Orderbook: notify_one, which reaches the pruner only if it is waiting.
DestructorNotify ==
    /\ pc["main"] = "alive"
    /\ \A c \in Clients : pc[c] = "idle"
    /\ notified' = (pc["pruner"] = "waiting")
    /\ Goto("main", "joining")
    /\ UNCHANGED <<bookVars, ordersMutex_, shutdown_, call, calls, local, orderIds, cancelIds>>

\* ~Orderbook: ordersPruneThread_.join().
DestructorJoin ==
    /\ pc["main"] = "joining"
    /\ pc["pruner"] = "exited"
    /\ Goto("main", "destroyed")
    /\ UNCHANGED <<bookVars, ordersMutex_, shutdown_, notified, call, calls, local, orderIds, cancelIds>>

ClientStep(c) ==
    \/ ThreadAddOrder(c)
    \/ ThreadMatchOrders(c)
    \/ ThreadCancelOrder(c)
    \/ ThreadModifyOrder(c)
    \/ ThreadModifyCancel(c)
    \/ ThreadModifyAdd(c)
    \/ ThreadSize(c)
    \/ ThreadGetOrderInfosBids(c)
    \/ ThreadGetOrderInfosAsks(c)

NextThreads ==
    \/ \E c \in Clients : ClientStep(c)
    \/ PrunerLock
    \/ PrunerWoken
    \/ PrunerTimeout
    \/ PrunerCollect
    \/ PrunerCancelOrders
    \/ PrunerCancelOrderInternal
    \/ PrunerCancelOrdersReturn
    \/ PrunerLoop
    \/ DestructorNotify
    \/ DestructorJoin

SpecThreads == Init /\ [][NextThreads]_vars

\* ------------------------------------------------------ claims on threads
\* C8: each public operation takes effect as one atomic step: between the
\* existence check, the cancellation and the admission of a ModifyOrder no call
\* of another thread takes effect on its id, so the order that the check found
\* is there, with its type, when it is cancelled, and the id is free when the
\* replacement is admitted.
C8_ModifyOrderIsAtomic ==
    \A c \in Clients :
        /\ pc[c] = "modify_cancel" =>
               /\ local[c].modify.orderId \in DOMAIN orders_
               /\ orders_[local[c].modify.orderId].orderType = local[c].orderType
        /\ pc[c] = "modify_add" =>
               local[c].modify.orderId \notin DOMAIN orders_

\* The snapshot shows a bid level at or above an ask level.
CrossedInfos(infos) ==
    /\ infos.bids # <<>>
    /\ infos.asks # <<>>
    /\ infos.bids[1].price_ >= infos.asks[1].price_

\* C9: a snapshot taken while other threads add, cancel and modify never shows
\* an intermediate state of theirs: every returned snapshot is uncrossed.
C9_SnapshotNeverCrossed ==
    \A c \in Clients :
        local[c].infos # <<>> => ~CrossedInfos(local[c].infos[1])

\* C10: the pruner cannot miss a shutdown: once the destructor has begun, the
\* pruner exits without waiting through a further close of the market, so its
\* wait_for never times out while the destructor joins.
C10_PrunerCannotMissShutdown ==
    [][pc["main"] = "joining" =>
           ~(pc["pruner"] = "waiting" /\ pc'["pruner"] = "collect")]_vars

\* ------------------------------------------------------- level data, pruning
\* The level of a side at a price, empty when the side has no such level.
LevelAt(side, price) == IF price \in DOMAIN side THEN side[price] ELSE <<>>

RECURSIVE SumRemaining(_)
SumRemaining(orders) ==
    IF orders = <<>> THEN 0
    ELSE Head(orders).remainingQuantity + SumRemaining(Tail(orders))

\* The number of orders resting at a price, and their remaining quantity.
CountAt(b, price) == Len(LevelAt(b.bids, price)) + Len(LevelAt(b.asks, price))
QuantityAt(b, price) ==
    SumRemaining(LevelAt(b.bids, price)) + SumRemaining(LevelAt(b.asks, price))

\* data_ describes the levels at the price: no entry where nothing rests, else
\* the count and the remaining quantity of what rests.
LevelDataAgrees(b, price) ==
    IF CountAt(b, price) = 0 THEN price \notin DOMAIN b.data
    ELSE /\ price \in DOMAIN b.data
         /\ b.data[price].count_ = CountAt(b, price)
         /\ b.data[price].quantity_ = QuantityAt(b, price)

\* A side without the orders of the given ids, and without the levels they leave empty.
Without(side, ids) ==
    LET kept(p) == SelectSeq(side[p], LAMBDA o : o.orderId \notin ids)
    IN  [p \in {x \in DOMAIN side : kept(x) # <<>>} |-> kept(p)]

\* C11: when a round of the pruner completes its bulk cancellation, no order of
\* its snapshot of GoodForDay ids rests any more, and the side books, the order
\* index and the level data are updated for each removed order: each round of
\* the loop takes exactly its order out of the queues and the index, and level
\* data that agreed with its levels still agrees.
C11_PrunerRemovesGoodForDay ==
    [][/\ (pc["pruner"] = "cancelling" /\ pc'["pruner"] = "cancelling") =>
              LET visited == cancelIds \ cancelIds'
              IN  /\ bids_' = Without(bids_, visited)
                  /\ asks_' = Without(asks_, visited)
                  /\ orders_' = [i \in (DOMAIN orders_) \ visited |-> orders_[i]]
                  /\ \A p \in Prices : LevelDataAgrees(Book, p) => LevelDataAgrees(Book', p)
       /\ (pc["pruner"] = "cancelling" /\ pc'["pruner"] = "pruned") =>
              \A i \in orderIds : ~InBook(Book', i)]_vars

\* C11 witness: a round has removed the two GoodForDay orders of its snapshot
\* and left another order resting.
C11_Witness ==
    /\ pc["pruner"] = "pruned"
    /\ Cardinality(orderIds) = 2
    /\ \A i \in orderIds : ~InBook(Book, i)
    /\ DOMAIN orders_ # {}

\* A public operation has returned to the single caller.
Returned == ordersMutex_ = "free" /\ call.op # "none" /\ call.exit = "return"

\* The prices that have a level in bids_ or in asks_.
LevelPrices(b) == DOMAIN b.bids \cup DOMAIN b.asks

\* C12: after every public operation, every price with a level in a side book
\* has a level data entry whose count_ is positive and is the number of orders
\* in the queue at that price.
C12_LevelCountIsQueueLength ==
    Returned =>
        \A p \in LevelPrices(Book) :
            /\ p \in DOMAIN data_
            /\ data_[p].count_ > 0
            /\ data_[p].count_ = CountAt(Book, p)

\* C13: after every public operation, at every price with a level in a side
\* book the quantity_ of the level data entry is the sum of the remaining
\* quantities of the orders resting there.
C13_LevelQuantityIsSumOfRemaining ==
    Returned =>
        \A p \in LevelPrices(Book) :
            /\ p \in DOMAIN data_
            /\ data_[p].quantity_ = QuantityAt(Book, p)

\* ------------------------------------------------------------ order index
\* Size: orders_.size().
Size(b) == Cardinality(DOMAIN b.orders)

\* The places of the side books that hold an order with the id.
Places(b, orderId) ==
    UNION {{<<"Buy", p, k>> : k \in {j \in DOMAIN b.bids[p] : b.bids[p][j].orderId = orderId}}
               : p \in DOMAIN b.bids}
    \cup
    UNION {{<<"Sell", p, k>> : k \in {j \in DOMAIN b.asks[p] : b.asks[p][j].orderId = orderId}}
               : p \in DOMAIN b.asks}

\* The number of orders in the levels of a side.
RECURSIVE SideCount(_)
SideCount(side) ==
    IF DOMAIN side = {} THEN 0
    ELSE LET p == SetMin(DOMAIN side)
         IN  Len(side[p]) + SideCount(Erase(side, p))

\* C14: after every public operation the order index and the side books agree:
\* an id is in the index iff its order rests in exactly one place, a queue of
\* the side and price of the order, which the index entry names; and Size is
\* the number of orders in the levels of both sides.
C14_IndexAgreesWithQueues ==
    (ordersMutex_ = "free" /\ call.exit \in {"return", "throw"}) =>
        /\ \A i \in OrderIds :
               IF i \in DOMAIN orders_
               THEN /\ Cardinality(Places(Book, i)) = 1
                    /\ \A x \in Places(Book, i) :
                           LET o == IF x[1] = "Buy" THEN bids_[x[2]][x[3]]
                                    ELSE asks_[x[2]][x[3]]
                           IN  /\ o.side = x[1]
                               /\ o.price = x[2]
                               /\ orders_[i].side = x[1]
                               /\ orders_[i].price = x[2]
                               /\ orders_[i].orderType = o.orderType
               ELSE Places(Book, i) = {}
        /\ Size(Book) = SideCount(bids_) + SideCount(asks_)

\* C14 witness: after a call that traded and removed a filled order, two orders
\* rest, on opposite sides.
C14_Witness ==
    /\ Returned
    /\ call.trades # <<>>
    /\ Size(call.pre) >= 1
    /\ \E i \in DOMAIN call.pre.orders : i \notin DOMAIN orders_
    /\ Size(Book) = 2
    /\ DOMAIN bids_ # {}
    /\ DOMAIN asks_ # {}

\* ------------------------------------------------------------ conservation
\* The last call admitted an order: the order, and the book it was admitted to
\* (for ModifyOrder the replacement, and the book after the cancellation).
Admission ==
    IF call.op = "modify"
    THEN [order |-> ToOrderPointer(call.arg, call.pre.orders[call.arg.orderId].orderType),
          book |-> CancelOrderInternal(call.pre, call.arg.orderId)]
    ELSE [order |-> call.arg, book |-> call.pre]

HasAdmission ==
    /\ \/ call.op = "add"
       \/ call.op = "modify" /\ call.arg.orderId \in DOMAIN call.pre.orders
    /\ call.exit \in {"return", "throw", "blocked"}
    /\ ~Rejected(Admission.book, Admission.order)

\* The remaining quantity resting on a side.
RECURSIVE TotalRemaining(_)
TotalRemaining(side) ==
    IF DOMAIN side = {} THEN 0
    ELSE LET p == SetMin(DOMAIN side)
         IN  SumRemaining(side[p]) + TotalRemaining(Erase(side, p))

\* The remaining quantity of the order with the id in a book: 0 if none rests.
RemainingOf(b, orderId) ==
    LET found == {o \in QueuedOrders(b) : o.orderId = orderId}
    IN  IF found = {} THEN 0 ELSE (CHOOSE o \in found : TRUE).remainingQuantity

\* The quantity of the trades with the id on the bid leg, or on the ask leg.
RECURSIVE TradedQuantity(_, _)
TradedQuantity(trades, orderId) ==
    IF trades = <<>> THEN 0
    ELSE (IF Head(trades).bid.orderId = orderId THEN Head(trades).bid.quantity ELSE 0)
         + (IF Head(trades).ask.orderId = orderId THEN Head(trades).ask.quantity ELSE 0)
         + TradedQuantity(Tail(trades), orderId)

RECURSIVE SumAskQuantity(_)
SumAskQuantity(trades) ==
    IF trades = <<>> THEN 0
    ELSE Head(trades).ask.quantity + SumAskQuantity(Tail(trades))

\* C15: matching conserves quantity: in one admission the trade quantities sum
\* to the decrease of the remaining quantity on the bid side and to that on the
\* ask side; the remaining quantity of every order falls by the quantity of the
\* trades it appears in, starting from its initial quantity; and always
\* 0 <= remaining <= initial.
C15_QuantityConserved ==
    /\ \A o \in QueuedOrders(Book) :
           0 <= o.remainingQuantity /\ o.remainingQuantity <= o.initialQuantity
    /\ HasAdmission =>
           LET order == Admission.order
               before == Admission.book
               arriving(side) == IF order.side = side THEN order.initialQuantity ELSE 0
           IN  /\ SumQuantity(call.trades)
                      = TotalRemaining(before.bids) + arriving("Buy") - TotalRemaining(bids_)
               /\ SumAskQuantity(call.trades)
                      = TotalRemaining(before.asks) + arriving("Sell") - TotalRemaining(asks_)
               /\ SumQuantity(call.trades) = SumAskQuantity(call.trades)
               /\ \A i \in OrderIds :
                      TradedQuantity(call.trades, i)
                          = (IF i = order.orderId THEN order.initialQuantity
                             ELSE RemainingOf(before, i)) - RemainingOf(Book, i)

\* C15 witness: an admitted sell order made two trades, each filling a resting
\* bid.
C15_Witness ==
    /\ HasAdmission
    /\ call.exit = "return"
    /\ Len(call.trades) = 2
    /\ call.trades[1].bid.orderId # call.trades[2].bid.orderId
    /\ call.trades[1].ask.orderId = Admission.order.orderId
    /\ RemainingOf(Admission.book, call.trades[1].bid.orderId) > 0
    /\ RemainingOf(Book, call.trades[1].bid.orderId) = 0

\* ---------------------------------------------------------- rejected adds
\* The order cannot match the best price of the opposing side.
Unmatchable(b, order) ==
    IF order.side = "Buy"
    THEN DOMAIN b.asks = {} \/ \A p \in DOMAIN b.asks : order.price < p
    ELSE DOMAIN b.bids = {} \/ \A p \in DOMAIN b.bids : order.price > p

\* The last call was an AddOrder of an id already in the index, or of a
\* FillAndKill order that cannot match: it returned no trades and changed nothing.
RejectedAddChangesNothing ==
    (/\ call.op = "add"
     /\ \/ call.arg.orderId \in DOMAIN call.pre.orders
        \/ call.arg.orderType = "FillAndKill" /\ Unmatchable(call.pre, call.arg))
        => /\ call.exit = "return"
           /\ call.trades = <<>>
           /\ Book = call.pre

\* AddOrder of o twice ends in the state of AddOrder of o once, the second call
\* returning no trades.
SecondAddChangesNothing(o) ==
    LET first == AddOrderLocked(Book, o)
        second == AddOrderLocked(first.book, o)
    IN  second.trades = <<>> /\ second.book = first.book

C17_CancelAffectsOnlyItsOrder ==
    (call.op = "cancel" /\ call.exit = "return") =>
        IF call.arg \notin DOMAIN call.pre.orders
        THEN Book = call.pre
        ELSE LET entry == call.pre.orders[call.arg]
                 before == LevelAt(IF entry.side = "Buy" THEN call.pre.bids
                                   ELSE call.pre.asks, entry.price)
                 after == LevelAt(IF entry.side = "Buy" THEN bids_ ELSE asks_,
                                  entry.price)
             IN  /\ ~InBook(Book, call.arg)
                 /\ (after = <<>>) <=> (Len(before) = 1)
                 /\ bids_ = Without(call.pre.bids, {call.arg})
                 /\ asks_ = Without(call.pre.asks, {call.arg})
                 /\ orders_ = [i \in (DOMAIN call.pre.orders) \ {call.arg}
                                  |-> call.pre.orders[i]]
                 /\ \A p \in Prices \ {entry.price} :
                        /\ (p \in DOMAIN data_) <=> (p \in DOMAIN call.pre.data)
                        /\ p \in DOMAIN data_ => data_[p] = call.pre.data[p]

\* C17 witness: the second of two orders of a level was cancelled; the first is
\* still there.
C17_Witness ==
    /\ call.op = "cancel"
    /\ call.exit = "return"
    /\ call.arg \in DOMAIN call.pre.orders
    /\ \E p \in DOMAIN call.pre.bids :
           /\ Len(call.pre.bids[p]) = 2
           /\ call.pre.bids[p][2].orderId = call.arg
           /\ p \in DOMAIN bids_
           /\ bids_[p] = <<call.pre.bids[p][1]>>

\* C18: CancelOrder inverts AddOrder when nothing crossed: from any reachable
\* book, for an order o with a fresh id whose admission makes no trade,
\* AddOrder(o) then CancelOrder(o.id) restores the side books, the order index
\* and the level data.
C18_CancelInvertsAdd ==
    (ordersMutex_ = "free" /\ call.exit = "return") =>
        \A o \in OrderInputs(Book) :
            LET added == AddOrderLocked(Book, o)
            IN  (/\ o.orderId \notin DOMAIN orders_
                 /\ added.exit = "return"
                 /\ added.trades = <<>>)
                    => CancelOrderInternal(added.book, o.orderId) = Book

\* ------------------------------------------------------------------ trades
\* The order with the id as the admission found it: the order admitted, or the
\* one resting in the book it was admitted to.
OrderBefore(orderId) ==
    IF orderId = Admission.order.orderId THEN Admission.order
    ELSE CHOOSE o \in QueuedOrders(Admission.book) : o.orderId = orderId

\* The remaining quantity of the order before the k-th trade of the call.
RemainingBefore(orderId, k) ==
    OrderBefore(orderId).remainingQuantity
        - TradedQuantity(SubSeq(call.trades, 1, k - 1), orderId)

\* C19: with every admitted quantity positive, every trade has a positive
\* quantity, the same on both legs and equal to the smaller of the remaining
\* quantities of the two orders before the fill; the bid leg names a buy order
\* and carries its price, the ask leg a sell order and its price; and the bid
\* leg's price is at least the ask leg's.
C19_TradesAreWellFormed ==
    HasAdmission =>
        \A k \in DOMAIN call.trades :
            LET t == call.trades[k]
                bid == OrderBefore(t.bid.orderId)
                ask == OrderBefore(t.ask.orderId)
            IN  /\ t.bid.quantity > 0
                /\ t.bid.quantity = t.ask.quantity
                /\ t.bid.quantity = Min(RemainingBefore(t.bid.orderId, k),
                                        RemainingBefore(t.ask.orderId, k))
                /\ bid.side = "Buy"
                /\ ask.side = "Sell"
                /\ t.bid.price = bid.price
                /\ t.ask.price = ask.price
                /\ t.bid.price >= t.ask.price

\* C19 witness: an admitted buy order at a price above a resting ask traded
\* part of the ask's quantity, each leg at its own order's price.
C19_Witness ==
    /\ HasAdmission
    /\ call.exit = "return"
    /\ Len(call.trades) = 1
    /\ call.trades[1].bid.orderId = Admission.order.orderId
    /\ call.trades[1].bid.price > call.trades[1].ask.price
    /\ call.trades[1].bid.quantity < OrderBefore(call.trades[1].ask.orderId).remainingQuantity

\* ------------------------------------------------------------ CanFullyFill
\* The remaining quantity resting on the side opposing an order of the given
\* side, at the prices its limit reaches.
Available(b, side, price) ==
    LET opposing == IF side = "Buy" THEN b.asks ELSE b.bids
        reached == {p \in DOMAIN opposing : IF side = "Buy" THEN p <= price ELSE p >= price}
    IN  TotalRemaining([p \in reached |-> opposing[p]])

\* C20: in every reachable book, CanFullyFill(side, price, quantity) is true
\* iff the orders resting on the opposing side at prices no worse than the
\* limit have remaining quantity of at least quantity in sum.
C20_CanFullyFillIsSumOverQueues ==
    (ordersMutex_ = "free" /\ call.exit = "return") =>
        \A side \in Sides, price \in Prices, quantity \in Quantities :
            CanFullyFill(Book, side, price, quantity)
                <=> (Available(Book, side, price) >= quantity)

\* --------------------------------------------------- the bulk cancellation
\* The pruner is inside the loop of CancelOrders.
InBulkCancel == pc["pruner"] = "cancelling"

\* The step is one of GetOrderInfos on thread c, which takes no lock.
SnapshotStep(c) ==
    \/ pc[c] = "idle" /\ pc'[c] = "infos"
    \/ pc[c] = "infos" /\ pc'[c] = "idle"

\* C21: the pruner's cancellations are atomic as a group: the loop of
\* CancelOrders runs under one acquisition of ordersMutex_, so from the
\* cancellation of one collected id to the next no AddOrder, CancelOrder,
\* ModifyOrder or Size of another thread begins, proceeds or takes effect: the
\* mutex is the pruner's, the book changes only by the loop, and the only
\* steps of other threads are those of GetOrderInfos.
C21_BulkCancelIsAtomic ==
    [][InBulkCancel =>
           /\ ordersMutex_ = "pruner"
           /\ bookVars' # bookVars => cancelIds' # cancelIds
           /\ calls' # calls => \E c \in Clients : pc[c] = "idle" /\ pc'[c] = "infos"
           /\ \A c \in Clients :
                  (pc'[c] # pc[c] \/ local'[c] # local[c]) =>
                      SnapshotStep(c) \/ pc'["pruner"] = "fault"]_vars

\* C21 witness: the loop has cancelled one of its two ids and not yet the
\* other, while a client is free to make a call.
C21_Witness ==
    /\ InBulkCancel
    /\ Cardinality(orderIds) = 2
    /\ Cardinality(cancelIds) = 1
    /\ \A i \in orderIds \ cancelIds : ~InBook(Book, i)
    /\ \E i \in cancelIds : InBook(Book, i)
    /\ calls < MaxCalls
    /\ pc["main"] = "alive"
    /\ \E c \in Clients : pc[c] = "idle"

\* ------------------------------------------------------ levels and orders
\* A side book has a level whose queue is empty.
HasEmptyLevel(side) == \E p \in DOMAIN side : side[p] = <<>>

\* C22: after every public operation no price level of bids_ or of asks_ has
\* an empty queue: the operation that takes the last order out of a level
\* deletes the level.
C22_NoEmptyLevel ==
    Returned => ~HasEmptyLevel(bids_) /\ ~HasEmptyLevel(asks_)

\* C22 witness: the trade of an admission has filled the only order of an ask
\* level, the level is gone from asks_, and other levels are still there.
C22_Witness ==
    /\ Returned
    /\ call.op = "add"
    /\ call.trades # <<>>
    /\ LevelPrices(Book) # {}
    /\ \E p \in DOMAIN call.pre.asks :
           /\ Len(call.pre.asks[p]) = 1
           /\ call.pre.asks[p][1].orderId = call.trades[1].ask.orderId
           /\ p \notin DOMAIN asks_

\* The order at the other end of orders_[orderId] has nothing left to fill,
\* or is in no queue.
FilledInIndex(b, orderId) ==
    \A o \in QueuedOrders(b) : o.orderId = orderId => o.remainingQuantity = 0

\* C23: with every order added or modified of a quantity above 0, after every
\* public operation no order whose remaining quantity is 0 is in a queue of a
\* side book or in the order index: the admission whose fill takes an order
\* to 0 pops it from its queue and erases it from the index.
C23_NoFilledOrderRests ==
    Returned =>
        /\ \A o \in QueuedOrders(Book) : o.remainingQuantity # 0
        /\ \A i \in DOMAIN orders_ : ~FilledInIndex(Book, i)

\* C23 witness: an admission has filled a resting order completely and
\* another in part; the first is gone from queue and index, the second rests.
C23_Witness ==
    /\ Returned
    /\ call.op = "add"
    /\ Len(call.trades) = 2
    /\ LET first == call.trades[1].bid.orderId
           second == call.trades[2].bid.orderId
       IN  /\ first # second
           /\ first \in DOMAIN call.pre.orders
           /\ first \notin DOMAIN orders_
           /\ ~InBook(Book, first)
           /\ second \in DOMAIN orders_
           /\ RemainingOf(Book, second) > 0

\* C24: after every public operation data_ has an entry at a price if and
\* only if bids_ or asks_ has a level at that price: the entry is deleted
\* exactly when its count_ reaches zero, and none survives, with a negative or
\* wrapped count_ or quantity_, at a price whose level matching, cancellation
\* or pruning emptied.
C24_LevelDataEntryIffLevel ==
    Returned =>
        /\ DOMAIN data_ = LevelPrices(Book)
        /\ \A p \in DOMAIN data_ : data_[p].count_ > 0 /\ data_[p].quantity_ >= 0

\* ------------------------------------------------------ what the pruner removes
\* The ids whose orders the step takes out of the order index.
RemovedIds == (DOMAIN orders_) \ (DOMAIN orders_')

\* C25: the pruner removes GoodForDay orders only: whatever the client threads
\* do between the lock under which the ids are collected and the lock of the
\* bulk cancellation, every order a round of the loop of CancelOrders takes
\* out of the book is of type GoodForDay, also when a collected id was
\* cancelled and used again by another thread in between.
C25_PrunerRemovesOnlyGoodForDay ==
    [][InBulkCancel =>
           \A i \in RemovedIds : orders_[i].orderType = "GoodForDay"]_vars

====
